---- MODULE Spec2Model ----
(***************************************************************************)
(* NetworkInterceptionService                                              *)
(* (browser-tools-mcp/browser-tools-server/browser-connector-extended.js)  *)
(* together with the POST /network/enable-interception route that drives   *)
(* it.  The automation driver (puppeteer page) is modelled at its          *)
(* interface: setRequestInterception, on('request'/'response'), the        *)
(* request/response events, isInterceptResolutionHandled and the three     *)
(* resolution calls abort / continue / respond.                            *)
(***************************************************************************)
EXTENDS Integers, Sequences, FiniteSets, TLC

\* ------------------------------------------------------------------ bounds
MaxReqs      == 2   \* requests the driver emits in one behaviour
MaxHandlers  == 2   \* size cap of the interceptHandlers Map
MaxInstalls  == 2   \* calls that insert a new key into the Map
MaxListeners == 2   \* page.on('request', ...) registrations over all pages
MaxLaunches  == 2   \* puppeteer.launch calls
MaxClock     == 1   \* Date.now() ticks

EnableCalls == {1, 2}   \* concurrent POST /network/enable-interception calls
Priorities  == {0, 1}   \* priority values a caller passes

\* ------------------------------------------------------- request views
\* A URL is the sequence of its characters, so that String.includes is
\* computed and not assumed.
UrlLogo  == <<"/", "l", ".", "p", "n", "g">>
UrlIndex == <<"/", "i", ".", "h", "t", "m">>
UrlApi   == <<"/", "a", "p", "i">>

ReqViews ==
  { [url |-> UrlLogo,  resourceType |-> "image"],
    [url |-> UrlIndex, resourceType |-> "document"],
    [url |-> UrlApi,   resourceType |-> "xhr"] }

PatPng == <<".", "p", "n", "g">>
PatApi == <<"/", "a", "p", "i">>

\* (A, B, ..., Z) -> (a, b, ..., z) on the letters the views use.
ToLowerCase(c) ==
  CASE c = "L" -> "l" [] c = "P" -> "p" [] c = "N" -> "n" [] c = "G" -> "g"
    [] OTHER -> c

IncludesIgnoringCase(url, pat) ==
  \E k \in 0..(Len(url) - Len(pat)) :
    \A j \in 1..Len(pat) : ToLowerCase(url[k + j]) = ToLowerCase(pat[j])

\* String.prototype.includes: case-sensitive containment of pat in url.
Includes(url, pat) ==
  \E k \in 0..(Len(url) - Len(pat)) : SubSeq(url, k + 1, k + Len(pat)) = pat

\* --------------------------------------------------------------- handlers
NoResponse == [status |-> 0, body |-> "none"]
NoResult   == [action |-> "none", reason |-> "none", overrides |-> "none",
               response |-> NoResponse]

\* The promise of an async handler that never settles.
NeverSettles == [action |-> "never", reason |-> "none", overrides |-> "none",
                 response |-> NoResponse]

\* What one call of a handler produces: it threw (or its promise rejected),
\* and/or it suspended on a timer before settling, and the value it settled
\* with.
Settled(res)  == [threw |-> FALSE, delayed |-> FALSE, result |-> res]
Deferred(res) == [threw |-> FALSE, delayed |-> TRUE,  result |-> res]
Threw         == [threw |-> TRUE,  delayed |-> FALSE, result |-> NoResult]
Rejected      == [threw |-> TRUE,  delayed |-> TRUE,  result |-> NoResult]

\* The handler functions a caller can install.  kind is the install method,
\* pat / types / reason / mods / mock its arguments; for kind "custom" beh
\* is what the caller-supplied function does.
NoMock == [status |-> 0, body |-> "none"]
Handler(kind, pats, pat, types, reason, mods, mock, beh) ==
  [kind |-> kind, pats |-> pats, pat |-> pat, types |-> types,
   reason |-> reason, mods |-> mods, mock |-> mock, beh |-> beh]

BlockHandler(patterns, reason) ==
  Handler("block", patterns, <<>>, {}, reason, "none", NoMock, "none")
BlockTypeHandler(types, reason) ==
  Handler("block-resource", <<>>, <<>>, types, reason, "none", NoMock, "none")
ModifyHandler(pat, mods) ==
  Handler("modify-headers", <<>>, pat, {}, "none", mods, NoMock, "none")
MockHandler(pat, mock) ==
  Handler("mock-response", <<>>, pat, {}, "none", "none", mock, "none")
ThrottleHandler(pat) ==
  Handler("throttle", <<>>, pat, {}, "none", "none", NoMock, "none")
CustomHandler(beh) ==
  Handler("custom", <<>>, <<>>, {}, "none", "none", NoMock, beh)

\* blockRequests' closure: the first string pattern contained in the url
\* aborts.
RECURSIVE AnyPatternIncluded(_, _)
AnyPatternIncluded(url, patterns) ==
  IF patterns = <<>> THEN FALSE
  ELSE IF Includes(url, Head(patterns)) THEN TRUE
  ELSE AnyPatternIncluded(url, Tail(patterns))

AbortResult(reason) ==
  [action |-> "abort", reason |-> reason, overrides |-> "none",
   response |-> NoResponse]
ContinueResult(overrides) ==
  [action |-> "continue", reason |-> "none", overrides |-> overrides,
   response |-> NoResponse]
RespondResult(response) ==
  [action |-> "respond", reason |-> "none", overrides |-> "none",
   response |-> response]

\* mockData.status || 200
MockStatus(s) == IF s = 0 THEN 200 ELSE s

\* The closure blockRequests builds.
BlockRequestsHandler(h, view) ==
  IF AnyPatternIncluded(view.url, h.pats)
  THEN Settled(AbortResult(h.reason)) ELSE Settled(NoResult)

\* The closure blockResourceTypes builds.
BlockResourceTypesHandler(h, view) ==
  IF view.resourceType \in h.types
  THEN Settled(AbortResult(h.reason)) ELSE Settled(NoResult)

\* The closure modifyHeaders builds.
ModifyHeadersHandler(h, view) ==
  IF Includes(view.url, h.pat)
  THEN Settled(ContinueResult(h.mods)) ELSE Settled(NoResult)

MockResponseDefaultStatus(h, view) ==
  IF Includes(view.url, h.pat)
  THEN Settled(RespondResult([status |-> 200, body |-> h.mock.body]))
  ELSE Settled(NoResult)

\* The closure mockResponse builds.
MockResponseHandler(h, view) ==
  IF Includes(view.url, h.pat)
  THEN Settled(RespondResult([status |-> MockStatus(h.mock.status),
                              body |-> h.mock.body]))
  ELSE Settled(NoResult)

ThrottleHoldsThenDefers(h, view) ==
  IF Includes(view.url, h.pat)
  THEN Deferred(NoResult) ELSE Settled(NoResult)

\* The closure throttleRequests builds: a matching request waits for the
\* delay and is then continued.
ThrottleRequestsHandler(h, view) ==
  IF Includes(view.url, h.pat)
  THEN Deferred(ContinueResult("none")) ELSE Settled(NoResult)

\* A function installed through POST /network/add-handler.
CustomFunction(h, view) ==
  CASE h.beh = "throw"     -> Threw
    [] h.beh = "reject"    -> Rejected
    [] h.beh = "delayNone" -> Deferred(NoResult)
    [] h.beh = "hang"      -> Deferred(NeverSettles)
    [] OTHER               -> Settled(NoResult)

\* handler(interceptedRequest, requestData)
HandlerResult(h, view) ==
  CASE h.kind = "block"          -> BlockRequestsHandler(h, view)
    [] h.kind = "block-resource" -> BlockResourceTypesHandler(h, view)
    [] h.kind = "modify-headers" -> ModifyHeadersHandler(h, view)
    [] h.kind = "mock-response"  -> MockResponseHandler(h, view)
    [] h.kind = "throttle"       -> ThrottleRequestsHandler(h, view)
    [] h.kind = "custom"         -> CustomFunction(h, view)

\* `result && result.action` followed by a switch case that matches.
Decides(res) == res.action \in {"abort", "continue", "respond"}

\* ------------------------------------------------------------------ state
VARIABLES
  isInitialized,        \* this.isInitialized
  page,                 \* this.page: 0 is null, otherwise the page's number
  interceptionEnabled,  \* this.interceptionEnabled
  interceptHandlers,    \* this.interceptHandlers, the Map in insertion order
  requestLog,           \* this.requestLog
  responseLog,          \* this.responseLog
  blockedRequests,      \* this.blockedRequests
  modifiedRequests,     \* this.modifiedRequests
  priority,             \* this.priority
  now,                  \* Date.now()
  launches,             \* puppeteer.launch calls made so far
  pagesCreated,         \* pages the driver has created
  intercepting,         \* driver: page -> request interception switched on
  listeners,            \* driver: page -> number of 'request' listeners
  respListeners,        \* driver: page -> number of 'response' listeners
  enableCall,           \* the POST /network/enable-interception calls
  disableCall,          \* the disableInterception call in progress
  requests,             \* driver: the requests emitted, with the resolution
                        \* calls made on each
  responded,            \* driver: requests whose response was emitted
  runs,                 \* the handleRequest invocations suspended in a handler
  returned,             \* the handleRequest invocations that returned in the
                        \* step just taken
  installs,             \* keys inserted into the Map so far
  everDisabled,         \* a disableInterception has succeeded and no
                        \* enableInterception was called since
  lastResult            \* the result object a service call returned in the
                        \* step just taken

vars == <<isInitialized, page, interceptionEnabled, interceptHandlers,
          requestLog, responseLog, blockedRequests, modifiedRequests,
          priority, now, launches, pagesCreated, intercepting, listeners,
          respListeners, enableCall, disableCall, requests, responded, runs,
          returned, installs, everDisabled, lastResult>>

serviceLogs == <<requestLog, responseLog, blockedRequests, modifiedRequests>>
driverVars  == <<intercepting, listeners, respListeners, pagesCreated,
                 launches>>
callVars    == <<enableCall, disableCall>>
trafficVars == <<requests, responded, runs>>

Pages == 1..MaxLaunches

IdleCall == [pc |-> "idle", url |-> FALSE, prio |-> 0, tgt |-> 0]
NoCall   == [pc |-> "idle", tgt |-> 0]
Id(name, t) == [name |-> name, t |-> t]
NoId == Id("none", 0)
Result(op, success, id) == [op |-> op, success |-> success, handlerId |-> id]

\* lastResult and returned describe the step just taken: the result object
\* a service call returned in it, and the handleRequest invocations that
\* returned in it.
NoResultObject == Result("none", TRUE, NoId)
NoReturn == returned' = <<>>
NoAnswer == lastResult' = NoResultObject

\* constructor
Init ==
  /\ isInitialized = FALSE
  /\ page = 0
  /\ interceptionEnabled = FALSE
  /\ interceptHandlers = <<>>
  /\ requestLog = <<>>
  /\ responseLog = <<>>
  /\ blockedRequests = <<>>
  /\ modifiedRequests = <<>>
  /\ priority = 0
  /\ now = 0
  /\ launches = 0
  /\ pagesCreated = 0
  /\ intercepting = [p \in Pages |-> FALSE]
  /\ listeners = [p \in Pages |-> 0]
  /\ respListeners = [p \in Pages |-> 0]
  /\ enableCall = [e \in EnableCalls |-> IdleCall]
  /\ disableCall = NoCall
  /\ requests = <<>>
  /\ responded = {}
  /\ runs = <<>>
  /\ returned = <<>>
  /\ installs = 0
  /\ everDisabled = FALSE
  /\ lastResult = NoResultObject


\* ----------------------------------------------------------- the clock
Tick ==
  /\ now < MaxClock
  /\ now' = now + 1
  /\ NoReturn
  /\ NoAnswer
  /\ UNCHANGED <<isInitialized, page, interceptionEnabled, interceptHandlers,
                 serviceLogs, priority, driverVars, callVars, trafficVars, installs, everDisabled>>

\* --------------------------------------------------- the policy registry
Ids(hs) == {hs[i].id : i \in 1..Len(hs)}
IndexOf(hs, id) == CHOOSE i \in 1..Len(hs) : hs[i].id = id
RemoveAt(hs, k) == [i \in 1..(Len(hs) - 1) |-> IF i < k THEN hs[i] ELSE hs[i + 1]]

MapSetMovesToEnd(hs, id, h) ==
  Append(SelectSeq(hs, LAMBDA e : e.id # id), [id |-> id, handler |-> h])

MapSetKeepsOldFunction(hs, id, h) ==
  IF id \in Ids(hs) THEN hs ELSE Append(hs, [id |-> id, handler |-> h])

\* Map.prototype.set: an existing key keeps its position and gets the new
\* value, a new key is appended.
MapSet(hs, id, h) ==
  IF id \in Ids(hs)
  THEN [hs EXCEPT ![IndexOf(hs, id)].handler = h]
  ELSE Append(hs, [id |-> id, handler |-> h])

MapDeleteAlwaysTrue(hs, id) ==
  [map |-> SelectSeq(hs, LAMBDA e : e.id # id), removed |-> TRUE]

MapDeleteLeavesEntry(hs, id) ==
  [map |-> hs, removed |-> id \in Ids(hs)]

\* Map.prototype.delete: the entries left, and whether the key was there.
MapDelete(hs, id) ==
  IF id \in Ids(hs)
  THEN [map |-> RemoveAt(hs, IndexOf(hs, id)), removed |-> TRUE]
  ELSE [map |-> hs, removed |-> FALSE]

\* A suspended handleRequest holds a live iterator over the Map: idx is the
\* number of entries it has passed.  Deleting an entry it has passed moves
\* it back by one; clearing the Map leaves it in front of whatever is
\* inserted later.
IterAfterDelete(rs, k) ==
  [i \in 1..Len(rs) |->
     IF rs[i].idx >= k THEN [rs[i] EXCEPT !.idx = @ - 1] ELSE rs[i]]
IterAfterClear(rs) ==
  [i \in 1..Len(rs) |-> [rs[i] EXCEPT !.idx = 0]]

\* addInterceptHandler(id, handler)
AddInterceptHandler(id, h) ==
  /\ id \in Ids(interceptHandlers)
       \/ (Len(interceptHandlers) < MaxHandlers /\ installs < MaxInstalls)
  /\ interceptHandlers' = MapSet(interceptHandlers, id, h)
  /\ installs' = IF id \in Ids(interceptHandlers) THEN installs
                 ELSE installs + 1
  /\ lastResult' = Result("add", TRUE, id)
  /\ NoReturn
  /\ UNCHANGED <<isInitialized, page, interceptionEnabled, serviceLogs,
                 priority, now, driverVars, callVars, trafficVars,
                 everDisabled>>

\* removeInterceptHandler(id)
RemoveInterceptHandler(id) ==
  /\ interceptHandlers' = MapDelete(interceptHandlers, id).map
  /\ runs' = IF id \in Ids(interceptHandlers)
             THEN IterAfterDelete(runs, IndexOf(interceptHandlers, id))
             ELSE runs
  /\ lastResult' = Result("remove", MapDelete(interceptHandlers, id).removed, id)
  /\ NoReturn
  /\ UNCHANGED <<isInitialized, page, interceptionEnabled, serviceLogs,
                 priority, now, driverVars, callVars, requests, responded, installs, everDisabled>>

\* blockRequests(patterns, reason)
BlockRequests(patterns, reason) ==
  AddInterceptHandler(Id("block", now), BlockHandler(patterns, reason))

\* blockResourceTypes(resourceTypes, reason)
BlockResourceTypes(types, reason) ==
  AddInterceptHandler(Id("block-resource", now), BlockTypeHandler(types, reason))

\* modifyHeaders(urlPattern, headerModifications)
ModifyHeaders(pat, mods) ==
  AddInterceptHandler(Id("modify-headers", now), ModifyHandler(pat, mods))

\* mockResponse(urlPattern, mockData)
MockResponse(pat, mock) ==
  AddInterceptHandler(Id("mock-response", now), MockHandler(pat, mock))

\* throttleRequests(urlPattern, delay)
ThrottleRequests(pat) ==
  AddInterceptHandler(Id("throttle", now), ThrottleHandler(pat))

\* POST /network/add-handler {id, handler}
AddCustomHandler(id, beh) ==
  AddInterceptHandler(id, CustomHandler(beh))

\* setInterceptResolutionConfig(priority)
SetInterceptResolutionConfig(p) ==
  /\ priority' = p
  /\ lastResult' = Result("config", TRUE, NoId)
  /\ NoReturn
  /\ UNCHANGED <<isInitialized, page, interceptionEnabled, interceptHandlers,
                 serviceLogs, now, driverVars, callVars, trafficVars, installs, everDisabled>>

\* ------------------------------------------------------- handleRequest
\* requestData; rid stands for the identity of the intercepted request.
RequestData(rid, view) ==
  [rid |-> rid, url |-> view.url, resourceType |-> view.resourceType]

\* One consultation of a handler by the loop: whose it was, whether
\* handleRequest had to wait for it, what it yielded and what the loop did
\* with that ("decide", "none", "threw", or "suspend" while it waits).
Consulted(e, o, out) ==
  [id |-> e.id, kind |-> e.handler.kind, waited |-> o.delayed,
   res |-> o.result, out |-> out]

RECURSIVE LoopPastDecider(_, _, _)
LoopPastDecider(hs, i, view) ==
  IF i >= Len(hs)
  THEN [idx |-> i, trace |-> <<>>, stop |-> "exhausted", out |-> Settled(NoResult)]
  ELSE LET e == hs[i + 1]
           o == HandlerResult(e.handler, view)
           rest == LoopPastDecider(hs, i + 1, view)
       IN IF o.delayed
          THEN [idx |-> i + 1, trace |-> <<Consulted(e, o, "suspend")>>,
                stop |-> "suspend", out |-> o]
          ELSE IF o.threw
          THEN [rest EXCEPT !.trace = <<Consulted(e, o, "threw")>> \o @]
          ELSE IF Decides(o.result)
          THEN IF rest.stop = "exhausted"
               THEN [rest EXCEPT !.trace = <<Consulted(e, o, "decide")>> \o @,
                                 !.stop = "decide", !.out = o]
               ELSE [rest EXCEPT !.trace = <<Consulted(e, o, "decide")>> \o @]
          ELSE [rest EXCEPT !.trace = <<Consulted(e, o, "none")>> \o @]

RECURSIVE LoopThrowBreaks(_, _, _)
LoopThrowBreaks(hs, i, view) ==
  IF i >= Len(hs)
  THEN [idx |-> i, trace |-> <<>>, stop |-> "exhausted", out |-> Settled(NoResult)]
  ELSE LET e == hs[i + 1]
           o == HandlerResult(e.handler, view)
       IN IF o.delayed
          THEN [idx |-> i + 1, trace |-> <<Consulted(e, o, "suspend")>>,
                stop |-> "suspend", out |-> o]
          ELSE IF o.threw
          THEN [idx |-> i + 1, trace |-> <<Consulted(e, o, "threw")>>,
                stop |-> "exhausted", out |-> Settled(NoResult)]
          ELSE IF Decides(o.result)
          THEN [idx |-> i + 1, trace |-> <<Consulted(e, o, "decide")>>,
                stop |-> "decide", out |-> o]
          ELSE LET rest == LoopThrowBreaks(hs, i + 1, view)
               IN [rest EXCEPT !.trace = <<Consulted(e, o, "none")>> \o @]

\* The for-of loop over this.interceptHandlers from iterator position i,
\* up to the point where it leaves the loop or suspends: the entries it
\* consulted, where the iterator stands, and how it stopped
\* ("decide": a handler returned a result with an action, "suspend": a
\* handler is waiting on a timer, "exhausted": no entry is left).
RECURSIVE Loop(_, _, _)
Loop(hs, i, view) ==
  IF i >= Len(hs)
  THEN [idx |-> i, trace |-> <<>>, stop |-> "exhausted", out |-> Settled(NoResult)]
  ELSE LET e == hs[i + 1]
           o == HandlerResult(e.handler, view)
       IN IF o.delayed
          THEN [idx |-> i + 1, trace |-> <<Consulted(e, o, "suspend")>>,
                stop |-> "suspend", out |-> o]
          ELSE IF o.threw
          THEN LET rest == Loop(hs, i + 1, view)
               IN [rest EXCEPT !.trace = <<Consulted(e, o, "threw")>> \o @]
          ELSE IF Decides(o.result)
          THEN [idx |-> i + 1, trace |-> <<Consulted(e, o, "decide")>>,
                stop |-> "decide", out |-> o]
          ELSE LET rest == Loop(hs, i + 1, view)
               IN [rest EXCEPT !.trace = <<Consulted(e, o, "none")>> \o @]

AppliedWithoutPriority(res, prio) ==
  [action |-> res.action,
   reason |-> IF res.action = "abort" THEN res.reason ELSE "none",
   overrides |-> IF res.action = "continue"
                 THEN (IF res.overrides = "none" THEN "original"
                       ELSE res.overrides)
                 ELSE "none",
   response |-> IF res.action = "respond" THEN res.response ELSE NoResponse,
   priority |-> 0]

\* The call handleRequest makes on the intercepted request for a result,
\* with this.priority as its second argument.
Applied(res, prio) ==
  CASE res.action = "abort" ->
         [action |-> "abort",
          reason |-> IF res.reason = "" THEN "failed" ELSE res.reason,
          overrides |-> "none", response |-> NoResponse, priority |-> prio]
    [] res.action = "continue" ->
         [action |-> "continue", reason |-> "none",
          overrides |-> IF res.overrides = "none" THEN "original"
                        ELSE res.overrides,
          response |-> NoResponse, priority |-> prio]
    [] res.action = "respond" ->
         [action |-> "respond", reason |-> "none", overrides |-> "none",
          response |-> res.response, priority |-> prio]

DefaultContinueOverridden(prio) == Applied(ContinueResult("auth"), prio)

\* Default: continue the request
DefaultContinue(prio) == Applied(ContinueResult("none"), prio)

\* What the switch pushes to this.blockedRequests / this.modifiedRequests.
ModifiedEntriesOnEveryContinue(data, res) ==
  IF res.action \in {"continue", "respond"}
  THEN << [rid |-> data.rid, url |-> data.url,
           resourceType |-> data.resourceType,
           modifications |-> res.overrides, response |-> res.response] >>
  ELSE <<>>

BlockedEntries(data, res) ==
  IF res.action = "abort"
  THEN << [rid |-> data.rid, url |-> data.url,
           resourceType |-> data.resourceType, reason |-> res.reason] >>
  ELSE <<>>
ModifiedEntries(data, res) ==
  IF (res.action = "continue" /\ res.overrides # "none")
       \/ res.action = "respond"
  THEN << [rid |-> data.rid, url |-> data.url,
           resourceType |-> data.resourceType,
           modifications |-> res.overrides, response |-> res.response] >>
  ELSE <<>>

\* The switch on result.action of a result that decides.
Decide(run, res, prio) ==
  [run |-> [run EXCEPT !.pc = "done", !.applied = @ \o <<Applied(res, prio)>>],
   blocked |-> BlockedEntries(RequestData(run.rid, run.view), res),
   modified |-> ModifiedEntries(RequestData(run.rid, run.view), res)]

\* handleRequest from iterator position i until it returns or suspends:
\* the record of the invocation and what it pushed to the two logs.
Proceed(run, hs, i, prio) ==
  LET l  == Loop(hs, i, run.view)
      at == [run EXCEPT !.idx = l.idx, !.trace = @ \o l.trace]
  IN CASE l.stop = "suspend" ->
            [run |-> [at EXCEPT !.pc = "suspended", !.pending = l.out],
             blocked |-> <<>>, modified |-> <<>>]
       [] l.stop = "decide" -> Decide(at, l.out.result, prio)
       [] l.stop = "exhausted" ->
            [run |-> [at EXCEPT !.pc = "done",
                                !.applied = @ \o <<DefaultContinue(prio)>>],
             blocked |-> <<>>, modified |-> <<>>]

\* (began: the keys of the Map, in order, when the invocation reached its
\* loop.)
NewRun(rid, view) ==
  [rid |-> rid, view |-> view, pc |-> "start", idx |-> 0,
   pending |-> Settled(NoResult), trace |-> <<>>, applied |-> <<>>,
   began |-> [i \in 1..Len(interceptHandlers) |-> interceptHandlers[i].id]]

HandleRequestBehindHeld(rid, view, handled, hs, prio) ==
  IF handled
  THEN [run |-> [NewRun(rid, view) EXCEPT !.pc = "done"],
        blocked |-> <<>>, modified |-> <<>>]
  ELSE IF runs # <<>>
  THEN [run |-> [NewRun(rid, view) EXCEPT !.pc = "suspended"],
        blocked |-> <<>>, modified |-> <<>>]
  ELSE Proceed(NewRun(rid, view), hs, 0, prio)

HandleRequestIgnoresHandled(rid, view, handled, hs, prio) ==
  Proceed(NewRun(rid, view), hs, 0, prio)

\* handleRequest(interceptedRequest) from its entry to its first
\* suspension; handled is what isInterceptResolutionHandled() returns.
HandleRequest(rid, view, handled, hs, prio) ==
  IF handled
  THEN [run |-> [NewRun(rid, view) EXCEPT !.pc = "done"],
        blocked |-> <<>>, modified |-> <<>>]
  ELSE Proceed(NewRun(rid, view), hs, 0, prio)

\* handleRequest after the timer (or promise) its handler waited on has
\* settled: `await handler(...)` yields the handler's result or throws
\* into the catch, and the loop goes on from where its iterator stands.
Resume(run, hs, prio) ==
  LET o == run.pending
      k == Len(run.trace)
  IN IF o.threw
     THEN Proceed([run EXCEPT !.trace[k].out = "threw"], hs, run.idx, prio)
     ELSE IF Decides(o.result)
     THEN Decide([run EXCEPT !.trace[k].out = "decide"], o.result, prio)
     ELSE Proceed([run EXCEPT !.trace[k].out = "none"], hs, run.idx, prio)

Rep(n, x) == [i \in 1..n |-> x]
RECURSIVE Flat(_)
Flat(ss) == IF ss = <<>> THEN <<>> ELSE Head(ss) \o Flat(Tail(ss))

\* The driver emits a 'request' event on page pg: every listener that
\* enableInterception registered on that page runs handleRequest on the
\* same intercepted request.  handled: another consumer of the page has
\* already resolved the request.
EmitRequest(pg, view, handled) ==
  /\ Len(requests) < MaxReqs
  /\ pg \in 1..pagesCreated
  /\ listeners[pg] > 0
  /\ LET rid == Len(requests) + 1
         n   == listeners[pg]
         h   == HandleRequest(rid, view, handled, interceptHandlers, priority)
     IN /\ requests' = Append(requests,
                            [rid |-> rid, view |-> view, handled |-> handled,
                             page |-> pg, afterDisable |-> everDisabled,
                             entered |-> n,
                             decisions |-> Flat(Rep(n, h.run.applied))])
        /\ requestLog' = requestLog \o Rep(n, RequestData(rid, view))
        /\ IF h.run.pc = "suspended"
           THEN runs' = runs \o Rep(n, h.run) /\ returned' = <<>>
           ELSE runs' = runs /\ returned' = Rep(n, h.run)
        /\ blockedRequests' = blockedRequests \o Flat(Rep(n, h.blocked))
        /\ modifiedRequests' = modifiedRequests \o Flat(Rep(n, h.modified))
  /\ NoAnswer
  /\ UNCHANGED <<isInitialized, page, interceptionEnabled, interceptHandlers,
                 responseLog, priority, now, driverVars, callVars, responded, installs, everDisabled>>

\* The timer of a suspended handleRequest invocation fires.
ResumeRequest(r) ==
  /\ r \in 1..Len(runs)
  /\ runs[r].pending.result # NeverSettles
  /\ LET p == Resume(runs[r], interceptHandlers, priority)
     IN /\ IF p.run.pc = "suspended"
           THEN runs' = [runs EXCEPT ![r] = p.run] /\ returned' = <<>>
           ELSE runs' = RemoveAt(runs, r) /\ returned' = <<p.run>>
        /\ requests' = [requests EXCEPT ![runs[r].rid].decisions =
                                           @ \o p.run.applied]
        /\ blockedRequests' = blockedRequests \o p.blocked
        /\ modifiedRequests' = modifiedRequests \o p.modified
  /\ NoAnswer
  /\ UNCHANGED <<isInitialized, page, interceptionEnabled, interceptHandlers,
                 requestLog, responseLog, priority, now, driverVars, callVars,
                 responded, installs, everDisabled>>

\* The driver emits the 'response' event of a request: every 'response'
\* listener of its page runs handleResponse.
EmitResponse(rid) ==
  /\ rid \in 1..Len(requests)
  /\ rid \notin responded
  /\ responded' = responded \cup {rid}
  /\ responseLog' = responseLog \o
        Rep(respListeners[requests[rid].page],
            [rid |-> rid, url |-> requests[rid].view.url])
  /\ NoReturn
  /\ NoAnswer
  /\ UNCHANGED <<isInitialized, page, interceptionEnabled, interceptHandlers,
                 requestLog, blockedRequests, modifiedRequests, priority, now,
                 driverVars, callVars, requests, runs, installs, everDisabled>>

ClearLogsKeepsResponses ==
  /\ requestLog' = <<>>
  /\ responseLog' = responseLog
  /\ blockedRequests' = <<>>
  /\ modifiedRequests' = <<>>
  /\ lastResult' = Result("clear", TRUE, NoId)
  /\ NoReturn
  /\ UNCHANGED <<isInitialized, page, interceptionEnabled, interceptHandlers,
                 priority, now, driverVars, callVars, trafficVars,
                 installs, everDisabled>>

\* clearLogs()
ClearLogs ==
  /\ requestLog' = <<>>
  /\ responseLog' = <<>>
  /\ blockedRequests' = <<>>
  /\ modifiedRequests' = <<>>
  /\ lastResult' = Result("clear", TRUE, NoId)
  /\ NoReturn
  /\ UNCHANGED <<isInitialized, page, interceptionEnabled, interceptHandlers,
                 priority, now, driverVars, callVars, trafficVars,
                 installs, everDisabled>>

LogResultNewestFirst(op, log) ==
  [op |-> op, success |-> TRUE, handlerId |-> NoId,
   entries |-> [i \in 1..Len(log) |-> log[Len(log) + 1 - i]],
   count |-> Len(log)]

\* The object a get*Log method returns: the log's array and its length.
LogResult(op, log) ==
  [op |-> op, success |-> TRUE, handlerId |-> NoId,
   entries |-> log, count |-> Len(log)]

\* A get*Log method answers; nothing of the service changes.
Answer(result) ==
  /\ lastResult' = result
  /\ NoReturn
  /\ UNCHANGED <<isInitialized, page, interceptionEnabled, interceptHandlers,
                 serviceLogs, priority, now, driverVars, callVars,
                 trafficVars, installs, everDisabled>>

\* getRequestLog()
GetRequestLog == Answer(LogResult("getRequestLog", requestLog))

\* getResponseLog()
GetResponseLog == Answer(LogResult("getResponseLog", responseLog))

\* getBlockedRequests()
GetBlockedRequests == Answer(LogResult("getBlockedRequests", blockedRequests))

\* getModifiedRequests()
GetModifiedRequests ==
  Answer(LogResult("getModifiedRequests", modifiedRequests))

\* --------------------------------------------------- enableInterception
RECURSIVE SumTo(_, _)
SumTo(f, k) == IF k = 0 THEN 0 ELSE f[k] + SumTo(f, k - 1)
TotalListeners == SumTo(listeners, MaxLaunches)
PendingEnables ==
  Cardinality({e \in EnableCalls : enableCall[e].pc \in
                 {"launching", "viewport", "intercepting"}})

\* The route after `await enableInterception(url)` has returned a result:
\* `if (priority !== 0) setInterceptResolutionConfig(priority)`.
RoutePriority(p, current) == IF p # 0 THEN p ELSE current

\* POST /network/enable-interception {url, priority}: enableInterception
\* is entered.  Not initialized: initialize() calls puppeteer.launch and
\* waits.  Initialized: page.setRequestInterception(true) is called on
\* this.page and awaited.
EnableCall(e, url, p) ==
  /\ enableCall[e].pc = "idle"
  /\ TotalListeners + PendingEnables < MaxListeners
  /\ IF isInitialized
     THEN /\ enableCall' = [enableCall EXCEPT ![e] =
                 [pc |-> "intercepting", url |-> url, prio |-> p, tgt |-> page]]
          /\ launches' = launches
     ELSE /\ launches < MaxLaunches
          /\ enableCall' = [enableCall EXCEPT ![e] =
                 [pc |-> "launching", url |-> url, prio |-> p, tgt |-> 0]]
          /\ launches' = launches + 1
  /\ everDisabled' = FALSE
  /\ NoReturn
  /\ NoAnswer
  /\ UNCHANGED <<installs, isInitialized, page, interceptionEnabled, interceptHandlers,
                 serviceLogs, priority, now, intercepting, listeners,
                 respListeners, pagesCreated, disableCall, trafficVars>>

\* initialize(): launch and newPage have resolved; this.page is the new
\* page and setViewport is awaited.
InitNewPage(e) ==
  /\ enableCall[e].pc = "launching"
  /\ pagesCreated' = pagesCreated + 1
  /\ page' = pagesCreated + 1
  /\ enableCall' = [enableCall EXCEPT ![e].pc = "viewport"]
  /\ NoReturn
  /\ NoAnswer
  /\ UNCHANGED <<isInitialized, interceptionEnabled, interceptHandlers,
                 serviceLogs, priority, now, launches, intercepting,
                 listeners, respListeners, disableCall, trafficVars,
                 installs, everDisabled>>

\* initialize(): puppeteer.launch rejects; enableInterception rejects and
\* the route answers 500.
InitFail(e) ==
  /\ enableCall[e].pc = "launching"
  /\ enableCall' = [enableCall EXCEPT ![e] = IdleCall]
  /\ NoReturn
  /\ NoAnswer
  /\ UNCHANGED <<isInitialized, page, interceptionEnabled, interceptHandlers,
                 serviceLogs, priority, now, driverVars, disableCall,
                 trafficVars, installs, everDisabled>>

\* initialize() returns: isInitialized is set, and enableInterception
\* calls page.setRequestInterception(true) on this.page.
InitDone(e) ==
  /\ enableCall[e].pc = "viewport"
  /\ isInitialized' = TRUE
  /\ enableCall' = [enableCall EXCEPT ![e].pc = "intercepting", ![e].tgt = page]
  /\ NoReturn
  /\ NoAnswer
  /\ UNCHANGED <<page, interceptionEnabled, interceptHandlers, serviceLogs,
                 priority, now, driverVars, disableCall, trafficVars, installs, everDisabled>>

\* setRequestInterception(true) resolves: the flag is set and the two
\* listeners are registered on this.page; with a url, page.goto is awaited,
\* without one the call returns success.
EnableSubscribe(e) ==
  /\ enableCall[e].pc = "intercepting"
  /\ intercepting' = [intercepting EXCEPT ![enableCall[e].tgt] = TRUE]
  /\ interceptionEnabled' = TRUE
  /\ listeners' = [listeners EXCEPT ![page] = @ + 1]
  /\ respListeners' = [respListeners EXCEPT ![page] = @ + 1]
  /\ IF enableCall[e].url
     THEN /\ enableCall' = [enableCall EXCEPT ![e].pc = "navigating"]
          /\ UNCHANGED priority /\ NoAnswer
     ELSE /\ enableCall' = [enableCall EXCEPT ![e] = IdleCall]
          /\ priority' = RoutePriority(enableCall[e].prio, priority)
          /\ lastResult' = Result("enable", TRUE, NoId)
  /\ NoReturn
  /\ UNCHANGED <<isInitialized, page, interceptHandlers, serviceLogs, now,
                 launches, pagesCreated, disableCall, trafficVars,
                 installs, everDisabled>>

\* setRequestInterception(true) rejects: the catch returns success false.
EnableRefused(e) ==
  /\ enableCall[e].pc = "intercepting"
  /\ enableCall' = [enableCall EXCEPT ![e] = IdleCall]
  /\ priority' = RoutePriority(enableCall[e].prio, priority)
  /\ lastResult' = Result("enable", FALSE, NoId)
  /\ NoReturn
  /\ UNCHANGED <<isInitialized, page, interceptionEnabled, interceptHandlers,
                 serviceLogs, now, driverVars, disableCall, trafficVars, installs, everDisabled>>

\* page.goto resolves (ok) or rejects (the catch returns success false).
EnableNavigated(e, ok) ==
  /\ enableCall[e].pc = "navigating"
  /\ enableCall' = [enableCall EXCEPT ![e] = IdleCall]
  /\ priority' = RoutePriority(enableCall[e].prio, priority)
  /\ lastResult' = Result("enable", ok, NoId)
  /\ NoReturn
  /\ UNCHANGED <<isInitialized, page, interceptionEnabled, interceptHandlers,
                 serviceLogs, now, driverVars, disableCall, trafficVars, installs, everDisabled>>

\* -------------------------------------------------- disableInterception
\* disableInterception() is entered: this.page is null and the call
\* throws into the catch at once, or setRequestInterception(false) is
\* called on this.page and awaited.
DisableCall ==
  /\ disableCall.pc = "idle"
  /\ IF page = 0
     THEN /\ lastResult' = Result("disable", FALSE, NoId)
          /\ UNCHANGED disableCall
     ELSE /\ disableCall' = [pc |-> "awaiting", tgt |-> page]
          /\ NoAnswer
  /\ NoReturn
  /\ UNCHANGED <<isInitialized, page, interceptionEnabled, interceptHandlers,
                 serviceLogs, priority, now, driverVars, enableCall,
                 trafficVars, installs, everDisabled>>

\* What disableInterception assigns once setRequestInterception(false) has
\* resolved: this.interceptionEnabled = false, this.interceptHandlers.clear().
DisableEffectClearsLogs ==
  [enabled |-> FALSE, handlers |-> <<>>, iterators |-> IterAfterClear(runs),
   requestLog |-> <<>>, responseLog |-> <<>>,
   blockedRequests |-> <<>>, modifiedRequests |-> <<>>,
   priority |-> priority]

DisableEffect ==
  [enabled |-> FALSE, handlers |-> <<>>, iterators |-> IterAfterClear(runs),
   requestLog |-> requestLog, responseLog |-> responseLog,
   blockedRequests |-> blockedRequests, modifiedRequests |-> modifiedRequests,
   priority |-> priority]

\* setRequestInterception(false) resolves.
DisableDone ==
  /\ disableCall.pc = "awaiting"
  /\ intercepting' = [intercepting EXCEPT ![disableCall.tgt] = FALSE]
  /\ interceptionEnabled' = DisableEffect.enabled
  /\ interceptHandlers' = DisableEffect.handlers
  /\ runs' = DisableEffect.iterators
  /\ requestLog' = DisableEffect.requestLog
  /\ responseLog' = DisableEffect.responseLog
  /\ blockedRequests' = DisableEffect.blockedRequests
  /\ modifiedRequests' = DisableEffect.modifiedRequests
  /\ priority' = DisableEffect.priority
  /\ disableCall' = NoCall
  /\ everDisabled' = TRUE
  /\ lastResult' = Result("disable", TRUE, NoId)
  /\ NoReturn
  /\ UNCHANGED <<installs, isInitialized, page, now, launches, pagesCreated, listeners,
                 respListeners, enableCall, requests, responded>>

DisableFailedAfterClearing ==
  /\ disableCall.pc = "awaiting"
  /\ disableCall' = NoCall
  /\ interceptionEnabled' = FALSE
  /\ interceptHandlers' = <<>>
  /\ runs' = IterAfterClear(runs)
  /\ lastResult' = Result("disable", FALSE, NoId)
  /\ NoReturn
  /\ UNCHANGED <<isInitialized, page, serviceLogs, priority, now, driverVars,
                 enableCall, requests, responded, installs, everDisabled>>

\* setRequestInterception(false) rejects: the catch returns success false.
DisableFailed ==
  /\ disableCall.pc = "awaiting"
  /\ disableCall' = NoCall
  /\ lastResult' = Result("disable", FALSE, NoId)
  /\ NoReturn
  /\ UNCHANGED <<isInitialized, page, interceptionEnabled, interceptHandlers,
                 serviceLogs, priority, now, driverVars, enableCall,
                 trafficVars, installs, everDisabled>>

\* ------------------------------------------------------ specifications
\* The arguments callers pass.
BlockPatterns == { <<PatPng>> }
MockDatas     == { [status |-> 0, body |-> "users"] }
HeaderMods    == { "auth" }
CustomIds     == { Id("mine", 0) }
CustomBehs    == { "throw", "none", "delayNone", "reject" }
ViewLogo      == [url |-> UrlLogo, resourceType |-> "image"]

\* One caller enables interception once, without a start url.
EnableOnce ==
  \/ EnableCall(1, FALSE, 0)
  \/ InitNewPage(1)
  \/ InitDone(1)
  \/ EnableSubscribe(1)

\* The registry and the resolution of requests in an enabled session.
NextResolve ==
  \/ EnableOnce
  \/ \E ps \in BlockPatterns : BlockRequests(ps, "blocked")
  \/ \E m \in MockDatas : MockResponse(PatApi, m)
  \/ ThrottleRequests(PatPng)
  \/ \E id \in CustomIds, b \in CustomBehs : AddCustomHandler(id, b)
  \/ \E id \in Ids(interceptHandlers) \cup CustomIds : RemoveInterceptHandler(id)
  \/ \E pg \in Pages, v \in ReqViews : EmitRequest(pg, v, FALSE)
  \/ \E r \in 1..(MaxReqs * MaxListeners) : ResumeRequest(r)

SpecResolve == Init /\ [][NextResolve]_vars

\* The session: one caller at a time enables and disables interception
\* around traffic.
NextSession ==
  \/ \E p \in Priorities : EnableCall(1, FALSE, p)
  \/ InitNewPage(1)
  \/ InitDone(1)
  \/ EnableSubscribe(1)
  \/ DisableCall
  \/ DisableDone
  \/ DisableFailed
  \/ \E ps \in BlockPatterns : BlockRequests(ps, "blocked")
  \/ \E m \in HeaderMods : ModifyHeaders(PatPng, m)
  \/ ThrottleRequests(PatPng)
  \/ \E pg \in Pages, v \in {ViewLogo}, h \in BOOLEAN : EmitRequest(pg, v, h)
  \/ \E r \in 1..(MaxReqs * MaxListeners) : ResumeRequest(r)
  \/ \E rid \in 1..MaxReqs : EmitResponse(rid)

SpecSession == Init /\ [][NextSession]_vars

\* Enabling: two callers post enable-interception, with or without a start
\* url, the driver launches, refuses or navigates, and emits requests.
NextEnable ==
  \/ \E e \in EnableCalls, url \in BOOLEAN, p \in Priorities :
       EnableCall(e, url, p)
  \/ \E e \in EnableCalls : InitNewPage(e)
  \/ \E e \in EnableCalls : InitFail(e)
  \/ \E e \in EnableCalls : InitDone(e)
  \/ \E e \in EnableCalls : EnableSubscribe(e)
  \/ \E e \in EnableCalls : EnableRefused(e)
  \/ \E e \in EnableCalls, ok \in BOOLEAN : EnableNavigated(e, ok)
  \/ \E ps \in BlockPatterns : BlockRequests(ps, "blocked")
  \/ \E pg \in Pages : EmitRequest(pg, ViewLogo, FALSE)

SpecEnable == Init /\ [][NextEnable]_vars

\* Resolution under the event loop's guarantee that a timer set by a
\* handler fires: a caller installs async functions, some of which never
\* settle, and the driver emits requests.
NextLive ==
  \/ EnableOnce
  \/ \E ps \in BlockPatterns : BlockRequests(ps, "blocked")
  \/ ThrottleRequests(PatPng)
  \/ \E id \in CustomIds, b \in {"hang", "delayNone"} : AddCustomHandler(id, b)
  \/ \E pg \in Pages : EmitRequest(pg, ViewLogo, FALSE)
  \/ \E r \in 1..(MaxReqs * MaxListeners) : ResumeRequest(r)

SpecLive ==
  /\ Init /\ [][NextLive]_vars
  /\ \A r \in 1..(MaxReqs * MaxListeners) : WF_vars(ResumeRequest(r))

\* The built-in policies of an enabled session: callers install them, at
\* the same or at different clock readings, and the driver emits requests.
UrlLogoUpper == <<"/", "L", ".", "P", "N", "G">>
BuiltinViews ==
  ReqViews \cup { [url |-> UrlLogoUpper, resourceType |-> "image"] }
PatternLists == { <<PatPng>>, <<PatApi, PatPng>> }
MockChoices  == { [status |-> 0, body |-> "users"],
                  [status |-> 404, body |-> "gone"] }

NextBuiltins ==
  \/ EnableOnce
  \/ Tick
  \/ \E ps \in PatternLists : BlockRequests(ps, "blocked")
  \/ \E m \in HeaderMods : ModifyHeaders(PatPng, m)
  \/ \E m \in MockChoices : MockResponse(PatApi, m)
  \/ ThrottleRequests(PatPng)
  \/ \E pg \in Pages, v \in BuiltinViews : EmitRequest(pg, v, FALSE)
  \/ \E r \in 1..(MaxReqs * MaxListeners) : ResumeRequest(r)

SpecBuiltins == Init /\ [][NextBuiltins]_vars

\* The priority of an enabled session: callers set it, install policies
\* and the driver emits requests.
NextPriority ==
  \/ EnableOnce
  \/ \E p \in Priorities : SetInterceptResolutionConfig(p)
  \/ \E ps \in BlockPatterns : BlockRequests(ps, "blocked")
  \/ \E m \in MockDatas : MockResponse(PatApi, m)
  \/ ThrottleRequests(PatPng)
  \/ \E pg \in Pages, v \in ReqViews : EmitRequest(pg, v, FALSE)
  \/ \E r \in 1..(MaxReqs * MaxListeners) : ResumeRequest(r)

SpecPriority == Init /\ [][NextPriority]_vars

\* The logs of an enabled session: callers install policies, read the four
\* logs and clear them around traffic.
NextLogs ==
  \/ EnableOnce
  \/ \E ps \in BlockPatterns : BlockRequests(ps, "blocked")
  \/ \E m \in MockDatas : MockResponse(PatPng, m)
  \/ \E id \in CustomIds : AddCustomHandler(id, "delayNone")
  \/ \E pg \in Pages : EmitRequest(pg, ViewLogo, FALSE)
  \/ \E r \in 1..(MaxReqs * MaxListeners) : ResumeRequest(r)
  \/ \E rid \in 1..MaxReqs : EmitResponse(rid)
  \/ ClearLogs
  \/ GetRequestLog
  \/ GetResponseLog
  \/ GetBlockedRequests
  \/ GetModifiedRequests

SpecLogs == Init /\ [][NextLogs]_vars

\* ---------------------------------------------------------------- claims
Records == {returned[i] : i \in 1..Len(returned)}
Suspended == {runs[i] : i \in 1..Len(runs)}
InFlight(rid) == \E r \in Suspended : r.rid = rid
Count(log, rid) == Cardinality({i \in 1..Len(log) : log[i].rid = rid})
IdSeq(hs) == [i \in 1..Len(hs) |-> hs[i].id]
Without(hs, id) == SelectSeq(hs, LAMBDA e : e.id # id)

\* C1: every observed request that no other consumer has resolved gets
\* exactly one abort / continue / respond call: never more than one, and
\* exactly one once no handleRequest invocation for it is still in flight.
C1_ExactlyOneDecision ==
  \A rid \in 1..Len(requests) :
    ~requests[rid].handled =>
      /\ Len(requests[rid].decisions) <= 1
      /\ ~InFlight(rid) => Len(requests[rid].decisions) = 1

\* C2: whatever enableInterception / disableInterception calls were made,
\* a request the driver emits enters handleRequest exactly once and has
\* exactly one entry in the request log.
C2_NoDuplicateSubscription ==
  \A rid \in 1..Len(requests) :
    /\ requests[rid].entered = 1
    /\ Count(requestLog, rid) = 1

\* C8: a request the driver emits after disableInterception has succeeded
\* (and before enableInterception is called again) is not accepted: it
\* enters no handleRequest, no decision is applied to it, and it gets no
\* entry in the request, aborted or modified log.
C8_NothingAcceptedAfterDisable ==
  \A rid \in 1..Len(requests) :
    requests[rid].afterDisable =>
      /\ requests[rid].entered = 0
      /\ requests[rid].decisions = <<>>
      /\ Count(requestLog, rid) = 0
      /\ Count(blockedRequests, rid) = 0
      /\ Count(modifiedRequests, rid) = 0

\* C9: the step in which disableInterception resets the enabled flag,
\* clears the registry and has switched driver interception off is taken
\* only when no captured request is still mid-resolution.
C9_DisableWaitsForDrain ==
  [][ (lastResult' = Result("disable", TRUE, NoId)) => runs = <<>> ]_vars

\* C10: a successful disableInterception leaves the registry empty and the
\* enabled flag false, and changes none of the four logs nor the priority.
C10_DisableFrame ==
  [][ (lastResult' = Result("disable", TRUE, NoId)) =>
        /\ interceptHandlers' = <<>>
        /\ interceptionEnabled' = FALSE
        /\ requestLog' = requestLog
        /\ responseLog' = responseLog
        /\ blockedRequests' = blockedRequests
        /\ modifiedRequests' = modifiedRequests
        /\ priority' = priority ]_vars

\* C10 witness: a disableInterception has just succeeded in a session that
\* had policies installed, entries in all four logs and a priority other
\* than the default.
C10_Witness ==
  /\ lastResult = Result("disable", TRUE, NoId)
  /\ installs > 0
  /\ requestLog # <<>>
  /\ responseLog # <<>>
  /\ blockedRequests # <<>>
  /\ modifiedRequests # <<>>
  /\ priority # 0

\* How a handleRequest invocation that consulted trace t must have ended:
\* with the call for the result of the last handler consulted when that
\* one decided, with the default continue otherwise.
EndsAsDecided(r) ==
  LET t == r.trace
  IN /\ Len(r.applied) = 1
     /\ IF t # <<>> /\ t[Len(t)].out = "decide"
        THEN /\ r.applied[1].action = t[Len(t)].res.action
             /\ r.applied[1].response = t[Len(t)].res.response
        ELSE /\ r.applied[1].action = "continue"
             /\ r.applied[1].overrides = "original"

\* Only the last consultation of an invocation can be one that decided.
StopsAtFirstDecider(r) ==
  \A k \in 1..(Len(r.trace) - 1) : r.trace[k].out \in {"none", "threw"}

\* The entries an invocation consults in one step are the entries of the
\* Map that follow its iterator, in Map order, none skipped.
ConsultsInMapOrder(before, after) ==
  /\ Len(after.trace) >= Len(before.trace)
  /\ \A k \in 1..(Len(after.trace) - Len(before.trace)) :
       /\ before.idx + k <= Len(interceptHandlers)
       /\ after.trace[Len(before.trace) + k].id =
            interceptHandlers[before.idx + k].id

\* C3: an invocation consults the policies in the Map's order, which is
\* the order in which their ids were inserted, stops at the first one that
\* decides and applies that one's decision.
C3_RegistrationOrderFirstDecider ==
  /\ [](\A r \in Records : StopsAtFirstDecider(r) /\ EndsAsDecided(r))
  /\ [](\A r \in Suspended : StopsAtFirstDecider(r))
  /\ [][ /\ Len(interceptHandlers') > Len(interceptHandlers) =>
             SubSeq(interceptHandlers', 1, Len(interceptHandlers))
               = interceptHandlers
         /\ Len(requests') > Len(requests) =>
             ConsultsInMapOrder([idx |-> 0, trace |-> <<>>],
                                IF returned' # <<>> THEN returned'[1]
                                ELSE runs'[Len(runs')])
         /\ \A i \in 1..Len(runs) :
             ResumeRequest(i) =>
               ConsultsInMapOrder(runs[i],
                                  IF returned' # <<>> THEN returned'[1]
                                  ELSE runs'[i]) ]_vars

\* C3 witness: an invocation returned after the first of two installed
\* policies aborted the request, although the second one matches it too.
C3_Witness ==
  \E r \in Records :
    /\ Len(interceptHandlers) = 2
    /\ Len(r.trace) = 1
    /\ r.trace[1].id = interceptHandlers[1].id
    /\ r.trace[1].out = "decide"
    /\ r.applied[1].action = "abort"
    /\ HandlerResult(interceptHandlers[2].handler, r.view).result.action = "continue"

\* C4 as stated: addInterceptHandler under an id that is installed fails
\* and leaves the registry as it was.
C4_DuplicateIdRejected ==
  [][ (lastResult'.op = "add"
         /\ lastResult'.handlerId \in Ids(interceptHandlers)) =>
        /\ lastResult'.success = FALSE
        /\ interceptHandlers' = interceptHandlers ]_vars

\* C4 amended: addInterceptHandler under an id that is installed reports
\* success; the ids, their order and the size of the registry are as
\* before and every other id keeps its function.
C4_DuplicateIdReplacesInPlace ==
  [][ (lastResult'.op = "add"
         /\ lastResult'.handlerId \in Ids(interceptHandlers)) =>
        /\ lastResult'.success = TRUE
        /\ IdSeq(interceptHandlers') = IdSeq(interceptHandlers)
        /\ \A i \in 1..Len(interceptHandlers) :
             interceptHandlers[i].id # lastResult'.handlerId =>
               interceptHandlers'[i] = interceptHandlers[i] ]_vars

\* C4 witness: the first of two installed ids has just been installed
\* again (only two keys were ever inserted).
C4_Witness ==
  /\ lastResult.op = "add"
  /\ Len(interceptHandlers) = 2
  /\ interceptHandlers[1].id = lastResult.handlerId
  /\ installs = 2

\* C5: removeInterceptHandler(id) of an absent id reports failure and
\* changes nothing; of an installed id it reports success and leaves
\* exactly the other policies, in the order they had.
C5_RemoveHandler ==
  [][ lastResult'.op = "remove" =>
        IF lastResult'.handlerId \in Ids(interceptHandlers)
        THEN /\ lastResult'.success = TRUE
             /\ interceptHandlers' =
                  Without(interceptHandlers, lastResult'.handlerId)
             /\ Len(interceptHandlers') = Len(interceptHandlers) - 1
        ELSE /\ lastResult'.success = FALSE
             /\ interceptHandlers' = interceptHandlers ]_vars

\* C5 witness: a removal has just succeeded and left another policy
\* installed.
C5_Witness ==
  /\ lastResult.op = "remove"
  /\ lastResult.success
  /\ Len(interceptHandlers) = 1
  /\ installs = 2

\* C6: a handler that throws or rejects does not end the pass: when it is
\* the last consultation of an invocation that returned, no entry of the
\* Map was left to consult and the request got the default continue; an
\* invocation that is not at the end of the Map is waiting for a handler.
C6_ThrowingPolicySkipped ==
  /\ \A r \in Records :
       /\ EndsAsDecided(r)
       /\ (r.trace # <<>> /\ r.trace[Len(r.trace)].out = "threw") =>
            /\ r.idx = Len(interceptHandlers)
            /\ r.applied = <<DefaultContinue(priority)>>
  /\ \A r \in Suspended : r.trace[Len(r.trace)].out = "suspend"

\* C6 witness: an invocation returned with an abort decided by the policy
\* registered after one that threw.
C6_Witness ==
  \E r \in Records :
    /\ Len(r.trace) = 2
    /\ r.trace[1].out = "threw"
    /\ r.trace[2].out = "decide"
    /\ r.applied[1].action = "abort"

\* Position of the entry a consultation was made on, 0 when removed since.
PositionOf(c) ==
  IF c.id \in Ids(interceptHandlers) THEN IndexOf(interceptHandlers, c.id)
  ELSE 0

\* C7 as stated: once a throttle policy has held a request, a block policy
\* registered after it that matches the request aborts it.
C7_ThrottleThenLaterPolicies ==
  \A r \in Records : \A k \in 1..Len(r.trace) :
    (r.trace[k].kind = "throttle" /\ r.trace[k].waited) =>
      \A j \in 1..Len(interceptHandlers) :
        (j > PositionOf(r.trace[k])
           /\ interceptHandlers[j].handler.kind = "block"
           /\ HandlerResult(interceptHandlers[j].handler, r.view).result.action
                = "abort")
          => r.applied[1].action = "abort"

\* C7 amended: once a throttle policy has held a request, the invocation
\* consults no further policy: the throttle policy is its last
\* consultation and the request is continued without overrides.
C7_ThrottleReleaseContinues ==
  \A r \in Records : \A k \in 1..Len(r.trace) :
    (r.trace[k].kind = "throttle" /\ r.trace[k].waited) =>
      /\ k = Len(r.trace)
      /\ r.trace[k].out = "decide"
      /\ r.applied = <<DefaultContinue(priority)>>

\* C7 witness: a request held by a throttle policy was continued although
\* a block policy that matches it is registered after the throttle policy.
C7_Witness ==
  \E r \in Records :
    /\ Len(interceptHandlers) = 2
    /\ Len(r.trace) = 1
    /\ r.trace[1].kind = "throttle"
    /\ r.trace[1].waited
    /\ interceptHandlers[1].id = r.trace[1].id
    /\ interceptHandlers[2].handler.kind = "block"
    /\ HandlerResult(interceptHandlers[2].handler, r.view).result.action = "abort"
    /\ r.applied[1].action = "continue"

\* C11: a disableInterception made while the enabled flag is false reports
\* success and changes neither the flag, nor the registry, nor any of the
\* four logs.
C11_DisableWhenDisabledIsNoOp ==
  [][ (lastResult'.op = "disable" /\ ~interceptionEnabled) =>
        /\ lastResult'.success = TRUE
        /\ interceptionEnabled' = interceptionEnabled
        /\ interceptHandlers' = interceptHandlers
        /\ requestLog' = requestLog
        /\ responseLog' = responseLog
        /\ blockedRequests' = blockedRequests
        /\ modifiedRequests' = modifiedRequests ]_vars

\* A handler of the registry makes handleRequest wait on this request.
HeldBySome(view) ==
  \E i \in 1..Len(interceptHandlers) :
    HandlerResult(interceptHandlers[i].handler, view).delayed

\* C12: a request on which no installed policy waits gets its terminal
\* decision in the step in which the driver emits it, however many
\* invocations are suspended at that moment, and those stay as they are.
C12_HeldRequestBlocksNoOther ==
  [][ (Len(requests') > Len(requests)
         /\ ~HeldBySome(requests'[Len(requests')].view)) =>
        /\ runs' = runs
        /\ Len(returned') = requests'[Len(requests')].entered
        /\ \A i \in 1..Len(returned') :
             /\ returned'[i].rid = Len(requests')
             /\ Len(returned'[i].applied) = 1
             /\ Len(returned'[i].trace) <= Len(interceptHandlers)
        /\ Len(requests'[Len(requests')].decisions) = Len(returned') ]_vars

\* C12 witness: the second request has just been decided by the mock
\* policy, after the throttle policy passed it on without waiting, while
\* the first request is still held by the throttle policy.
C12_Witness ==
  /\ Len(runs) = 1
  /\ runs[1].rid = 1
  /\ runs[1].trace[Len(runs[1].trace)].kind = "throttle"
  /\ Len(returned) = 1
  /\ returned[1].rid = 2
  /\ Len(returned[1].trace) = 2
  /\ returned[1].trace[1].kind = "throttle"
  /\ ~returned[1].trace[1].waited
  /\ returned[1].trace[2].out = "decide"
  /\ returned[1].applied[1].action = "respond"

\* The consultations an invocation made in the step just taken: all of its
\* trace for a request just emitted, what it added to its trace otherwise.
NewlyConsulted(before, after) ==
  {after.trace[k].id : k \in (Len(before.trace) + 1)..Len(after.trace)}

\* C13: a successful removeInterceptHandler(id) takes id out of the
\* registry, only addInterceptHandler under that id brings it back, and
\* every policy an invocation consults for a request emitted later is in
\* the registry at the moment it is consulted.
C13_RemovedPolicyNotConsulted ==
  [][ /\ (lastResult'.op = "remove" /\ lastResult'.success) =>
             lastResult'.handlerId \notin Ids(interceptHandlers')
      /\ \A id \in Ids(interceptHandlers') \ Ids(interceptHandlers) :
             lastResult' = Result("add", TRUE, id)
      /\ Len(requests') > Len(requests) =>
             /\ \A i \in 1..Len(returned') :
                  NewlyConsulted([trace |-> <<>>], returned'[i])
                    \subseteq Ids(interceptHandlers)
             /\ \A i \in (Len(runs) + 1)..Len(runs') :
                  NewlyConsulted([trace |-> <<>>], runs'[i])
                    \subseteq Ids(interceptHandlers)
      /\ \A i \in 1..Len(runs) :
             ResumeRequest(i) =>
               NewlyConsulted(runs[i], IF returned' # <<>> THEN returned'[1]
                                       ELSE runs'[i])
                 \subseteq Ids(interceptHandlers) ]_vars

\* C13 witness: two policies were installed and one of them removed; the
\* request just emitted was passed on by the remaining policy, the only
\* one consulted, and continued by default.
C13_Witness ==
  /\ installs = 2
  /\ Len(interceptHandlers) = 1
  /\ Len(returned) = 1
  /\ returned[1].view = ViewLogo
  /\ Len(returned[1].trace) = 1
  /\ returned[1].trace[1].id = interceptHandlers[1].id
  /\ returned[1].trace[1].kind = "custom"
  /\ returned[1].trace[1].out = "none"
  /\ returned[1].applied[1].action = "continue"

\* C14: the policies an invocation has consulted are the registry as it
\* was when the invocation began its pass, in order and from the first
\* one on; an invocation that returned without a decision has consulted
\* all of them.
C14_RegistrySnapshot ==
  /\ \A r \in Records \cup Suspended :
       /\ Len(r.trace) <= Len(r.began)
       /\ \A k \in 1..Len(r.trace) : r.trace[k].id = r.began[k]
  /\ \A r \in Records :
       (r.trace = <<>> \/ r.trace[Len(r.trace)].out # "decide") =>
         Len(r.trace) = Len(r.began)

\* No handler the invocation consulted produced a decision.
NoneDecided(r) ==
  \A k \in 1..Len(r.trace) : r.trace[k].out \in {"none", "threw"}

\* C15: an invocation that returns without any policy having decided (no
\* policy installed, or each returned nothing or threw) has called
\* continue on the request with the request's own overrides, and the step
\* in which it returns appends nothing to the aborted and modified logs.
C15_DefaultAllow ==
  [][ \A i \in 1..Len(returned') :
        (NoneDecided(returned'[i])
           /\ ~requests'[returned'[i].rid].handled) =>
          /\ Len(returned'[i].applied) = 1
          /\ returned'[i].applied[1].action = "continue"
          /\ returned'[i].applied[1].overrides = "original"
          /\ returned'[i].applied[1].response = NoResponse
          /\ blockedRequests' = blockedRequests
          /\ modifiedRequests' = modifiedRequests ]_vars

\* C15 witness: an invocation returned with the default continue after
\* one policy threw and the other returned nothing.
C15_Witness ==
  \E r \in Records :
    /\ Len(r.trace) = 2
    /\ NoneDecided(r)
    /\ \E k \in 1..2 : r.trace[k].out = "threw"
    /\ \E k \in 1..2 : r.trace[k].out = "none"
    /\ r.applied[1].action = "continue"

\* C17: when enableInterception returns success false, the enabled flag is
\* false afterwards, and the 'request' and 'response' listeners the call
\* registered before its navigation failed are no longer registered.
C17_EnableFailureLeavesDisabled ==
  [][ lastResult' = Result("enable", FALSE, NoId) =>
        /\ interceptionEnabled' = FALSE
        /\ \A e \in EnableCalls :
             (enableCall[e].pc = "navigating" /\ enableCall'[e].pc = "idle") =>
               /\ TotalListeners' < TotalListeners
               /\ SumTo(respListeners', MaxLaunches)
                    < SumTo(respListeners, MaxLaunches) ]_vars

\* C18: every request the driver emits gets a terminal decision sooner or
\* later.
C18_EventuallyResolved ==
  \A rid \in 1..MaxReqs :
    [](Len(requests) >= rid =>
         <>(Len(requests) >= rid /\ requests[rid].decisions # <<>>))

\* Log b is log a with entries appended at its end.
Extends(a, b) == Len(b) >= Len(a) /\ SubSeq(b, 1, Len(a)) = a

\* What the get method named op reads.
LogRead(op) ==
  CASE op = "getRequestLog"       -> requestLog
    [] op = "getResponseLog"      -> responseLog
    [] op = "getBlockedRequests"  -> blockedRequests
    [] op = "getModifiedRequests" -> modifiedRequests

LogReads == {"getRequestLog", "getResponseLog", "getBlockedRequests",
             "getModifiedRequests"}

\* C19: a step other than clearLogs only appends to the four logs, at
\* their ends; each get method returns the entries of its log as they
\* stand, in that order, and a count equal to their number.
C19_LogRoundTrip ==
  [][ /\ lastResult'.op # "clear" =>
             /\ Extends(requestLog, requestLog')
             /\ Extends(responseLog, responseLog')
             /\ Extends(blockedRequests, blockedRequests')
             /\ Extends(modifiedRequests, modifiedRequests')
      /\ lastResult'.op \in LogReads =>
             /\ lastResult'.success
             /\ lastResult'.entries = LogRead(lastResult'.op)
             /\ lastResult'.count = Len(LogRead(lastResult'.op)) ]_vars

\* C19 witness: getRequestLog has just returned the entries of the two
\* requests the driver emitted, in the order it emitted them.
C19_Witness ==
  /\ lastResult.op = "getRequestLog"
  /\ lastResult.count = 2
  /\ lastResult.entries[1].rid = 1
  /\ lastResult.entries[2].rid = 2

\* C20: every entry of the aborted and of the modified log is of a request
\* whose entry is in the request log: nothing of a request captured before
\* a clearLogs reaches a log after it, so a read that follows the clear
\* finds no entry of such a request.
C20_ClearLeavesNothingInFlight ==
  /\ \A i \in 1..Len(blockedRequests) :
       Count(requestLog, blockedRequests[i].rid) >= 1
  /\ \A i \in 1..Len(modifiedRequests) :
       Count(requestLog, modifiedRequests[i].rid) >= 1

\* C16: every abort, continue and respond call an invocation makes carries
\* the priority the service holds at that moment, and whatever that
\* priority is the invocation consults the entries of the Map in the
\* Map's order, from the first one on.
C16_PriorityForwardedNotOrdering ==
  /\ [](\A r \in Records : \A k \in 1..Len(r.applied) :
          r.applied[k].priority = priority)
  /\ [][ /\ Len(requests') > Len(requests) =>
             \A i \in 1..Len(returned') :
               ConsultsInMapOrder([idx |-> 0, trace |-> <<>>], returned'[i])
         /\ Len(runs') > Len(runs) =>
             ConsultsInMapOrder([idx |-> 0, trace |-> <<>>], runs'[Len(runs')])
         /\ \A p \in Priorities :
             SetInterceptResolutionConfig(p) =>
               /\ priority' = p
               /\ interceptHandlers' = interceptHandlers
               /\ runs' = runs ]_vars

\* C16 witness: with the priority set to 1 and two policies installed, the
\* second one decided a request and its respond call carried priority 1.
C16_Witness ==
  \E r \in Records :
    /\ priority = 1
    /\ Len(r.trace) = 2
    /\ r.trace[1].id = interceptHandlers[1].id
    /\ r.trace[2].id = interceptHandlers[2].id
    /\ r.applied[1].action = "respond"
    /\ r.applied[1].priority = 1

\* Character by character: pat occurs in url.
Occurs(url, pat) ==
  \E k \in 1..Len(url) :
    \A j \in 1..Len(pat) :
      k + j - 1 <= Len(url) /\ url[k + j - 1] = pat[j]

\* Only block-by-pattern policies are installed, and at least one is.
OnlyBlockByPattern ==
  /\ interceptHandlers # <<>>
  /\ \A i \in 1..Len(interceptHandlers) :
       interceptHandlers[i].handler.kind = "block"

\* C21: with only block-by-pattern policies installed, the request just
\* handled was aborted when one of the patterns occurs in its URL, letter
\* case included, and continued unmodified when none does.
C21_BlockByPattern ==
  \A r \in Records :
    OnlyBlockByPattern =>
      /\ Len(r.applied) = 1
      /\ r.applied[1].action \in {"abort", "continue"}
      /\ r.applied[1].action = "abort" <=>
           \E i \in 1..Len(interceptHandlers) :
             \E n \in 1..Len(interceptHandlers[i].handler.pats) :
               Occurs(r.view.url, interceptHandlers[i].handler.pats[n])
      /\ r.applied[1].action = "continue" =>
           r.applied[1].overrides = "original"
      /\ r.view.url = UrlLogo => r.applied[1].action = "abort"
      /\ r.view.url = UrlIndex => r.applied[1].action = "continue"
      /\ r.view.url = UrlLogoUpper => r.applied[1].action = "continue"

\* C21 witness: with the single policy blockRequests(['.png']) installed,
\* the request for /L.PNG has just been continued after the request for
\* /l.png was aborted.
C21_Witness ==
  \E r \in Records :
    /\ OnlyBlockByPattern
    /\ Len(interceptHandlers) = 1
    /\ interceptHandlers[1].handler.pats = <<PatPng>>
    /\ r.rid = 2
    /\ r.view.url = UrlLogoUpper
    /\ r.applied[1].action = "continue"
    /\ requests[1].view.url = UrlLogo
    /\ requests[1].decisions[1].action = "abort"

\* The policy's pattern (one of its patterns) occurs in the URL.
Matches(h, url) ==
  IF h.kind = "block"
  THEN \E n \in 1..Len(h.pats) : Occurs(url, h.pats[n])
  ELSE Occurs(url, h.pat)

\* Entry i is a mock-response policy that matches the URL and no entry
\* before it matches the URL.
MockIsFirstMatch(i, url) ==
  /\ interceptHandlers[i].handler.kind = "mock-response"
  /\ Matches(interceptHandlers[i].handler, url)
  /\ \A j \in 1..(i - 1) : ~Matches(interceptHandlers[j].handler, url)

\* C22: when the first installed policy that matches the request just
\* handled is a mock-response policy, the one call made on the request is
\* respond, with the policy's body and its status (200 when it was given
\* none); a request that no mock-response policy matches gets no respond.
C22_MockResponse ==
  \A r \in Records :
    /\ \A i \in 1..Len(interceptHandlers) :
         MockIsFirstMatch(i, r.view.url) =>
           /\ Len(r.applied) = 1
           /\ r.applied[1].action = "respond"
           /\ r.applied[1].response.body = interceptHandlers[i].handler.mock.body
           /\ r.applied[1].response.status =
                IF interceptHandlers[i].handler.mock.status = 0 THEN 200
                ELSE interceptHandlers[i].handler.mock.status
    /\ (\A i \in 1..Len(interceptHandlers) :
           interceptHandlers[i].handler.kind = "mock-response" =>
             ~Matches(interceptHandlers[i].handler, r.view.url)) =>
         \A k \in 1..Len(r.applied) : r.applied[k].action # "respond"

\* C22 witness: the block policy installed first passed the request for
\* /api on, and the mock-response policy after it answered it with status
\* 404 and body "gone".
C22_Witness ==
  \E r \in Records :
    /\ Len(interceptHandlers) = 2
    /\ interceptHandlers[1].handler.kind = "block"
    /\ MockIsFirstMatch(2, r.view.url)
    /\ r.view.url = UrlApi
    /\ Len(r.trace) = 2
    /\ r.applied[1].action = "respond"
    /\ r.applied[1].response = [status |-> 404, body |-> "gone"]

\* The invocations among rs that called abort, and those that called
\* continue with overrides of a policy or respond.
CalledAbort(rs) ==
  {i \in 1..Len(rs) : rs[i].applied # <<>> /\ rs[i].applied[1].action = "abort"}
CalledModify(rs) ==
  {i \in 1..Len(rs) :
     /\ rs[i].applied # <<>>
     /\ \/ rs[i].applied[1].action = "respond"
        \/ /\ rs[i].applied[1].action = "continue"
           /\ rs[i].applied[1].overrides # "original"}

\* C23: a step other than clearLogs appends to the aborted log one entry,
\* with the policy's reason, for each invocation that returns in it having
\* called abort, and to the modified log one entry for each that returns
\* having called continue with overrides or respond; it appends nothing
\* else to either, so a plain continue adds to neither and no invocation
\* adds to both.
C23_AuditTrail ==
  [][ lastResult'.op # "clear" =>
        /\ Extends(blockedRequests, blockedRequests')
        /\ Extends(modifiedRequests, modifiedRequests')
        /\ Len(blockedRequests') =
             Len(blockedRequests) + Cardinality(CalledAbort(returned'))
        /\ Len(modifiedRequests') =
             Len(modifiedRequests) + Cardinality(CalledModify(returned'))
        /\ CalledAbort(returned') \cap CalledModify(returned') = {}
        /\ \A k \in (Len(blockedRequests) + 1)..Len(blockedRequests') :
             \E i \in CalledAbort(returned') :
               /\ blockedRequests'[k].rid = returned'[i].rid
               /\ blockedRequests'[k].reason = returned'[i].applied[1].reason
        /\ \A k \in (Len(modifiedRequests) + 1)..Len(modifiedRequests') :
             \E i \in CalledModify(returned') :
               /\ modifiedRequests'[k].rid = returned'[i].rid
               /\ \/ modifiedRequests'[k].response
                       = returned'[i].applied[1].response
                  \/ modifiedRequests'[k].modifications
                       = returned'[i].applied[1].overrides ]_vars

\* C23 witness: the first request was aborted and has its entry in the
\* aborted log only; the second has just been answered by respond and has
\* its entry in the modified log only.
C23_Witness ==
  \E r \in Records :
    /\ r.rid = 2
    /\ r.applied[1].action = "respond"
    /\ Count(modifiedRequests, 2) = 1
    /\ Count(blockedRequests, 2) = 0
    /\ requests[1].decisions[1].action = "abort"
    /\ Count(blockedRequests, 1) = 1
    /\ Count(modifiedRequests, 1) = 0

\* C24: clearLogs leaves all four logs empty and the registry, the enabled
\* flag and the priority as they were; every other step leaves each of the
\* four logs as a prefix of what it becomes.
C24_AppendOnlyBetweenClears ==
  [][ IF lastResult'.op = "clear"
      THEN /\ requestLog' = <<>>
           /\ responseLog' = <<>>
           /\ blockedRequests' = <<>>
           /\ modifiedRequests' = <<>>
           /\ interceptHandlers' = interceptHandlers
           /\ interceptionEnabled' = interceptionEnabled
           /\ priority' = priority
      ELSE /\ Extends(requestLog, requestLog')
           /\ Extends(responseLog, responseLog')
           /\ Extends(blockedRequests, blockedRequests')
           /\ Extends(modifiedRequests, modifiedRequests') ]_vars

\* C24 witness: clearLogs has just returned in an enabled session with a
\* policy installed, after both requests the driver emitted had been
\* logged, one of them aborted, and a response had been logged.
C24_Witness ==
  /\ lastResult.op = "clear"
  /\ interceptionEnabled
  /\ interceptHandlers # <<>>
  /\ Len(requests) = 2
  /\ responded # {}
  /\ \E rid \in 1..2 :
       /\ requests[rid].decisions # <<>>
       /\ requests[rid].decisions[1].action = "abort"
  /\ requestLog = <<>>
  /\ responseLog = <<>>

\* C25: when a POST /network/enable-interception with priority p has been
\* answered with success, the service's priority is p, whatever it was
\* before; and an invocation that returns while such a command is waiting
\* for its navigation has made its call with that command's p.
C25_EnablePriorityApplies ==
  /\ [][ \A e \in EnableCalls :
           (/\ enableCall[e].pc # "idle"
            /\ enableCall'[e].pc = "idle"
            /\ lastResult' = Result("enable", TRUE, NoId)) =>
             priority' = enableCall[e].prio ]_vars
  /\ [](\A r \in Records : \A e \in EnableCalls :
          (enableCall[e].pc = "navigating" /\ r.applied # <<>>) =>
            r.applied[1].priority = enableCall[e].prio)

\* C26: puppeteer.launch is called at most once and at most one page is
\* created, however the enableInterception calls overlap.
C26_SingleLaunch ==
  /\ launches <= 1
  /\ pagesCreated <= 1

\* The names under which the built-in install methods form their ids.
BuiltinNames == {"block", "block-resource", "modify-headers",
                 "mock-response", "throttle"}

\* C27: an install of a built-in policy returns an id that was not in the
\* registry, and leaves the registry as it was with one entry added.
C27_BuiltinInstallAddsOne ==
  [][ (lastResult'.op = "add"
         /\ lastResult'.handlerId.name \in BuiltinNames) =>
        /\ lastResult'.handlerId \notin Ids(interceptHandlers)
        /\ Len(interceptHandlers') = Len(interceptHandlers) + 1
        /\ SubSeq(interceptHandlers', 1, Len(interceptHandlers))
             = interceptHandlers ]_vars

\* The invocations that began in the step just taken.
Began(rs, suspendedBefore, suspendedAfter) ==
  {rs[i] : i \in 1..Len(rs)}
    \cup {suspendedAfter[i] : i \in (Len(suspendedBefore) + 1)..Len(suspendedAfter)}

\* C28: blockRequests at a clock reading whose id is installed (that is,
\* addInterceptHandler with an installed id) puts the new function at the
\* position the id has and changes no other entry, so the ids and their
\* order stay; and an invocation for a request emitted consults each
\* position's id and gets what the function now stored there yields.
C28_ReplaceDecidesAfterwards ==
  [][ /\ \A ps \in PatternLists :
           (BlockRequests(ps, "blocked")
              /\ Id("block", now) \in Ids(interceptHandlers)) =>
             /\ IdSeq(interceptHandlers') = IdSeq(interceptHandlers)
             /\ \A i \in 1..Len(interceptHandlers) :
                  interceptHandlers'[i].handler =
                    IF interceptHandlers[i].id = Id("block", now)
                    THEN BlockHandler(ps, "blocked")
                    ELSE interceptHandlers[i].handler
      /\ Len(requests') > Len(requests) =>
           \A r \in Began(returned', runs, runs') :
             \A k \in 1..Len(r.trace) :
               /\ r.trace[k].id = interceptHandlers[k].id
               /\ r.trace[k].res =
                    HandlerResult(interceptHandlers[k].handler, r.view).result
     ]_vars

\* C28 witness: only one key was ever inserted; the first request for
\* /api was aborted by the function then stored under it, and the second
\* request for /api has just been passed on by the function that replaced
\* it and continued.
C28_Witness ==
  \E r \in Records :
    /\ installs = 1
    /\ Len(interceptHandlers) = 1
    /\ interceptHandlers[1].handler.kind = "block"
    /\ requests[1].view.url = UrlApi
    /\ requests[1].decisions[1].action = "abort"
    /\ r.rid = 2
    /\ r.view.url = UrlApi
    /\ r.trace[1].id = interceptHandlers[1].id
    /\ r.trace[1].out = "none"
    /\ r.applied[1].action = "continue"

\* C29: when the driver reports the request it emits as already resolved,
\* each listener's handleRequest pushes the request to the request log and
\* returns at once: it consults no policy, makes no abort, continue or
\* respond call, and pushes nothing to the aborted or modified log.
C29_AlreadyHandledRequest ==
  [][ (Len(requests') > Len(requests)
         /\ requests'[Len(requests')].handled) =>
        /\ requests'[Len(requests')].entered >= 1
        /\ Len(requestLog') =
             Len(requestLog) + requests'[Len(requests')].entered
        /\ Extends(requestLog, requestLog')
        /\ requestLog'[Len(requestLog')].rid = Len(requests')
        /\ Len(returned') = requests'[Len(requests')].entered
        /\ \A i \in 1..Len(returned') :
             returned'[i].trace = <<>> /\ returned'[i].applied = <<>>
        /\ runs' = runs
        /\ requests'[Len(requests')].decisions = <<>>
        /\ blockedRequests' = blockedRequests
        /\ modifiedRequests' = modifiedRequests ]_vars

\* C29 witness: with a block policy installed that matches it, a request
\* reported as already resolved has just been logged and left alone.
C29_Witness ==
  \E r \in Records :
    /\ requests[r.rid].handled
    /\ r.trace = <<>>
    /\ r.applied = <<>>
    /\ interceptHandlers # <<>>
    /\ interceptHandlers[1].handler.kind = "block"
    /\ HandlerResult(interceptHandlers[1].handler, r.view).result.action = "abort"
    /\ Count(requestLog, r.rid) >= 1
    /\ Count(blockedRequests, r.rid) = 0

\* C30: when setRequestInterception(false) rejects, disableInterception
\* returns success false and the enabled flag, the registry, the four logs
\* and the priority are what they were.
C30_DisableDriverFailure ==
  [][ (disableCall.pc = "awaiting" /\ lastResult'.op = "disable"
         /\ ~lastResult'.success) =>
        /\ lastResult' = Result("disable", FALSE, NoId)
        /\ interceptionEnabled' = interceptionEnabled
        /\ interceptHandlers' = interceptHandlers
        /\ requestLog' = requestLog
        /\ responseLog' = responseLog
        /\ blockedRequests' = blockedRequests
        /\ modifiedRequests' = modifiedRequests
        /\ priority' = priority
        /\ intercepting' = intercepting ]_vars

\* C30 witness: disableInterception has just returned success false in a
\* session that is still enabled, with its policy and its log entries in
\* place.
C30_Witness ==
  /\ lastResult = Result("disable", FALSE, NoId)
  /\ page # 0
  /\ interceptionEnabled
  /\ interceptHandlers # <<>>
  /\ requestLog # <<>>
  /\ blockedRequests # <<>>

====
